---- MODULE Spec2Model ----
(***************************************************************************)
(* Back-in-stock proxy (src/main.py): one POST endpoint that normalizes a  *)
(* comma-separated tag string (resolving product-variant references with   *)
(* concurrent GraphQL lookups), looks the customer up by email and either  *)
(* updates (tagsAdd + consent update) or creates the customer.             *)
(*                                                                         *)
(* A string is a sequence of atoms: single characters, except that the     *)
(* fixed texts "gid://shopify/ProductVariant/", "backin|" and the product  *)
(* handles are one atom each.  A tag is such a sequence.                    *)
(*                                                                         *)
(* One action is one step of a coroutine between two suspension points of  *)
(* the asyncio event loop.  The answer of the remote service to a call and *)
(* the resumption of the coroutine awaiting it are one action.             *)
(***************************************************************************)
EXTENDS Integers, Sequences, FiniteSets, TLC

\* ---- bounds -------------------------------------------------------------
NumReq == 2
Requests == 1..NumReq

\* ---- strings ------------------------------------------------------------
GidPrefix == "gid://shopify/ProductVariant/"
Digits == {"0", "1", "9"}
NoNote == "<None>"

\* raw tag strings the storefront may send
RawInputs ==
  { <<>>,
    <<" ">>,
    <<" ", ",", " ">>,
    <<"b", ",", "c">>,
    <<GidPrefix, "1", "0", ",", " ", "a", ",", "1", "0">>,
    <<"9">>,
    <<"1", ",", "9">>,
    <<"1", ",", "c", ",", "1", "0">> }

Emails == {"old@x.se", "new@x.se"}
Notes == {NoNote, "", "restock"}

\* the remote product catalogue: variant id -> handle of its product
Catalogue == (<<"1", "0">> :> "widget") @@ (<<"1">> :> "gadget")

\* userErrors arrays (messages) a mutation may answer with
UserErrorLists == { <<"Tags is invalid", "Customer is invalid">> }

\* ways a call fails in gql: no answer (a timeout, as a request error), or an
\* answer that is rejected (a status other than 200, as an errors envelope)
Failures == {"timeout", "status"}

EMAIL_CONSENT_SUBSCRIBED ==
  [marketingState |-> "SUBSCRIBED", marketingOptInLevel |-> "SINGLE_OPT_IN"]

NOT_SUBSCRIBED ==
  [marketingState |-> "NOT_SUBSCRIBED", marketingOptInLevel |-> "UNKNOWN"]

\* ---- str.split(","), str.strip() ---------------------------------------
RECURSIVE Split(_)
Split(s) ==
  IF \E i \in 1..Len(s) : s[i] = ","
  THEN LET i == CHOOSE k \in 1..Len(s) :
                  s[k] = "," /\ \A j \in 1..(k-1) : s[j] # ","
       IN  <<SubSeq(s, 1, i-1)>> \o Split(SubSeq(s, i+1, Len(s)))
  ELSE <<s>>

RECURSIVE LStrip(_)
LStrip(s) == IF s # <<>> /\ Head(s) = " " THEN LStrip(Tail(s)) ELSE s

RECURSIVE RStrip(_)
RStrip(s) ==
  IF s # <<>> /\ s[Len(s)] = " " THEN RStrip(SubSeq(s, 1, Len(s)-1)) ELSE s

Strip(s) == RStrip(LStrip(s))

\* [x.strip() for x in raw.split(",") if x.strip()]
Segments(raw) ==
  LET parts == Split(raw)
      stripped == [i \in 1..Len(parts) |-> Strip(parts[i])]
  IN  SelectSeq(stripped, LAMBDA x : x # <<>>)

GID_RX(t) ==
  /\ Len(t) >= 2
  /\ t[1] = GidPrefix
  /\ \A i \in 2..Len(t) : t[i] \in Digits

NUM_RX(t) == Len(t) >= 1 /\ \A i \in 1..Len(t) : t[i] \in Digits

\* the gid a segment is resolved with
GidOf(t) == IF GID_RX(t) THEN t ELSE <<GidPrefix>> \o t

\* variant_gid.split("/")[-1]
VariantId(gid) == Tail(gid)

BackinTag(handle, gid) == <<"backin|", handle, "|">> \o VariantId(gid)

\* mutant: the result list is returned as it is
DictFromKeys_NoDedup(s) == s

\* list(dict.fromkeys(result))
RECURSIVE DictFromKeys(_)
DictFromKeys(s) ==
  IF s = <<>> THEN <<>>
  ELSE LET init == DictFromKeys(SubSeq(s, 1, Len(s)-1))
           last == s[Len(s)]
       IN  IF \E i \in 1..Len(init) : init[i] = last
           THEN init ELSE Append(init, last)

Range(s) == {s[i] : i \in 1..Len(s)}

Classify(t) == IF GID_RX(t) THEN "gid" ELSE IF NUM_RX(t) THEN "num" ELSE "tag"

\* ---- values -------------------------------------------------------------
\* an HTTP outcome of the endpoint: the success bodies carry the key
\* "updated" or "created" and "customer_id", an HTTPException its detail
NoOut ==
  [status |-> 0, created |-> FALSE, updated |-> FALSE, customer_id |-> 0,
   detail |-> <<>>]

HTTPException(status, detail) ==
  [status |-> status, created |-> FALSE, updated |-> FALSE, customer_id |-> 0,
   detail |-> detail]

\* mutant: the found branch answers as the create branch does
UpdatedBody_Created(id) ==
  [status |-> 200, created |-> TRUE, updated |-> FALSE, customer_id |-> id,
   detail |-> <<>>]

UpdatedBody(id) ==
  [status |-> 200, created |-> FALSE, updated |-> TRUE, customer_id |-> id,
   detail |-> <<>>]

CreatedBody(id) ==
  [status |-> 200, created |-> TRUE, updated |-> FALSE, customer_id |-> id,
   detail |-> <<>>]

\* what gql raises for a failed call
GqlError(f) ==
  CASE f = "timeout" -> HTTPException(500, <<"Request to Shopify API timed out">>)
    [] f = "request_error" -> HTTPException(500, <<"Request error: ", "exc">>)
    [] f = "status" -> HTTPException(500, <<"Shopify API error ", "502", ": ", "text">>)
    [] f = "errors" -> HTTPException(500, <<"GraphQL error: ", "message">>)

\* a failed call whose request may have been carried out by the remote
\* service although no answer came back
MayHaveApplied(f) == f \in {"timeout", "request_error"}

\* the answer to an outbound call: k is "pending", "ok" or a failure
Pending == [k |-> "pending", ue |-> <<>>, h |-> "", id |-> 0]
Resp(k, ue, h, id) == [k |-> k, ue |-> ue, h |-> h, id |-> id]

Call(op, variables) == [op |-> op, vars |-> variables, res |-> Pending]

NoExc == NoOut

\* a task of normalize_tags; at is its place in the order in which the tasks
\* of its request finished (0 while its lookup is in flight)
Task(gid) ==
  [gid |-> gid, st |-> "inflight", val |-> <<>>, exc |-> NoExc, at |-> 0]

NoPayload == [email |-> "", tags |-> <<>>, note |-> NoNote]

\* ---- the remote directory ----------------------------------------------
\* node(id: $id) { ... on ProductVariant { id product { handle } } }
RemoteNode(gid) ==
  IF Tail(gid) \in DOMAIN Catalogue THEN Catalogue[Tail(gid)] ELSE ""

\* customers(first: 1, query: "email:...") { edges { node { id } } }
Edges(d, email) ==
  LET ids == {i \in 1..Len(d) : d[i].email = email}
  IN  IF ids = {} THEN <<>>
      ELSE <<CHOOSE i \in ids : \A j \in ids : i <= j>>

\* mutant: the tags are written over the customer's tags
TagsAdd_Replace(d, id, ts) == [d EXCEPT ![id].tags = Range(ts)]

TagsAdd(d, id, ts) == [d EXCEPT ![id].tags = @ \cup Range(ts)]

ConsentUpdate(d, input) ==
  [d EXCEPT ![input.customerId].consent = input.emailMarketingConsent]

CustomerCreate(d, input) ==
  Append(d, [email |-> input.email,
             tags |-> Range(input.tags),
             consent |-> input.emailMarketingConsent,
             note |-> IF "note" \in DOMAIN input THEN input.note ELSE ""])

\* ---- state --------------------------------------------------------------
VARIABLES
  pc,      \* per request: idle, await_task, lookup, tagsAdd, consent, create, done
  p,       \* per request: the Payload
  result,  \* per request: normalize_tags' result list
  tasks,   \* per request: normalize_tags' tasks
  ti,      \* per request: index of the task the for loop awaits
  tags,    \* per request: the normalized tags
  cid,     \* per request: the customer id
  calls,   \* per request: the outbound calls, in the order issued
  out,     \* per request: the HTTP outcome
  dir      \* the remote customer directory, customer id = index

vars == <<pc, p, result, tasks, ti, tags, cid, calls, out, dir>>

Init ==
  /\ pc = [r \in Requests |-> "idle"]
  /\ p = [r \in Requests |-> NoPayload]
  /\ result = [r \in Requests |-> <<>>]
  /\ tasks = [r \in Requests |-> <<>>]
  /\ ti = [r \in Requests |-> 0]
  /\ tags = [r \in Requests |-> <<>>]
  /\ cid = [r \in Requests |-> 0]
  /\ calls = [r \in Requests |-> <<>>]
  /\ out = [r \in Requests |-> NoOut]
  /\ dir = << [email |-> "old@x.se", tags |-> {<<"a">>, <<"b">>},
               consent |-> NOT_SUBSCRIBED, note |-> "vip"] >>

\* ---- steps of back_in_stock --------------------------------------------
LookupCall(email) == Call("customers", [query |-> <<"email:", email>>])

TagsAddCall(id, ts) == Call("tagsAdd", [id |-> id, tags |-> ts])

\* mutant: the consent update asks for a confirmed opt-in
ConsentCall_Pending(id) ==
  Call("customerEmailMarketingConsentUpdate",
       [input |-> [customerId |-> id,
                   emailMarketingConsent |->
                     [marketingState |-> "PENDING",
                      marketingOptInLevel |-> "CONFIRMED_OPT_IN"]]])

ConsentCall(id) ==
  Call("customerEmailMarketingConsentUpdate",
       [input |-> [customerId |-> id,
                   emailMarketingConsent |-> EMAIL_CONSENT_SUBSCRIBED]])

\* mutant: the note is always part of the input
CustInput_NoteAlways(payload, ts) ==
  [email |-> payload.email, tags |-> ts,
   emailMarketingConsent |-> EMAIL_CONSENT_SUBSCRIBED, note |-> payload.note]

\* mutant: the new customer is created without the subscription
CustInput_NotSubscribed(payload, ts) ==
  [email |-> payload.email, tags |-> ts, emailMarketingConsent |-> NOT_SUBSCRIBED]

\* mutant: the note is never part of the input
CustInput_NoNote(payload, ts) ==
  [email |-> payload.email, tags |-> ts,
   emailMarketingConsent |-> EMAIL_CONSENT_SUBSCRIBED]

CustInput(payload, ts) ==
  LET base == [email |-> payload.email, tags |-> ts,
               emailMarketingConsent |-> EMAIL_CONSENT_SUBSCRIBED]
  IN  IF payload.note # NoNote /\ payload.note # ""
      THEN ("note" :> payload.note) @@ base
      ELSE base

CreateCall(payload, ts) == Call("customerCreate", [input |-> CustInput(payload, ts)])

\* the request ends: an exception is raised or a body returned
Finish(r, o) ==
  /\ out' = [out EXCEPT ![r] = o]
  /\ pc' = [pc EXCEPT ![r] = "done"]

\* the answer res to the last call of request r is recorded
Answered(r, res) == [calls[r] EXCEPT ![Len(calls[r])].res = res]

\* mutant: the failed call is posted again
GqlFailed_Retry(r, k) ==
  /\ calls' = [calls EXCEPT ![r] =
                 Append(Answered(r, Resp(k, <<>>, "", 0)),
                        [calls[r][Len(calls[r])] EXCEPT !.res = Pending])]
  /\ UNCHANGED <<pc, out>>

\* mutant: the failure is recorded and the request waits on
GqlFailed_Wait(r, k) ==
  /\ calls' = [calls EXCEPT ![r] = Answered(r, Resp(k, <<>>, "", 0))]
  /\ UNCHANGED <<pc, out>>

\* gql raises for the call the request awaits: the exception leaves
\* back_in_stock through "except HTTPException: raise"
GqlFailed(r, k) ==
  /\ calls' = [calls EXCEPT ![r] = Answered(r, Resp(k, <<>>, "", 0))]
  /\ Finish(r, GqlError(k))

\* the validator of Payload.tags
TagsMustNotBeEmpty(v) == Strip(v) # <<>>

\* mutant: a missing node is reported as a server error
NodeOutcome_ServerError(t, handle) ==
  IF handle = ""
  THEN [t EXCEPT !.st = "err",
                 !.exc = HTTPException(500, <<"Ogiltig variant-GID: ">> \o t.gid)]
  ELSE [t EXCEPT !.st = "ok", !.val = BackinTag(handle, t.gid)]

\* mutant: a missing node is not noticed
NodeOutcome_Unchecked(t, handle) ==
  [t EXCEPT !.st = "ok", !.val = BackinTag(handle, t.gid)]

\* build_backin_tag after gql has returned: the task's result
NodeOutcome(t, handle) ==
  IF handle = ""
  THEN [t EXCEPT !.st = "err",
                 !.exc = HTTPException(400, <<"Ogiltig variant-GID: ">> \o t.gid)]
  ELSE [t EXCEPT !.st = "ok", !.val = BackinTag(handle, t.gid)]

\* mutant: tagsAdd is posted whatever the tags
FirstFoundCall_AlwaysTags(id, ts) == TagsAddCall(id, ts)

\* the first mutation of the found branch
FirstFoundCall(id, ts) ==
  IF ts # <<>> THEN TagsAddCall(id, ts) ELSE ConsentCall(id)

\* mutant: the userErrors of the consent update are not read
ConsentOutcome_Swallow(ue, id) == UpdatedBody(id)

\* how the found branch ends once the consent mutation is answered
ConsentOutcome(ue, id) ==
  IF ue # <<>>
  THEN HTTPException(500, <<"Email consent update failed: ", ue[1]>>)
  ELSE UpdatedBody(id)

\* mutant: the last message is reported
CreateOutcome_LastError(ue, id) ==
  IF ue # <<>>
  THEN HTTPException(500, <<"Customer create failed: ", ue[Len(ue)]>>)
  ELSE CreatedBody(id)

\* mutant: the userErrors of customerCreate are not read
CreateOutcome_Swallow(ue, id) == CreatedBody(id)

\* how the create branch ends once customerCreate is answered
CreateOutcome(ue, id) ==
  IF ue # <<>>
  THEN HTTPException(500, <<"Customer create failed: ", ue[1]>>)
  ELSE CreatedBody(id)

\* POST /back-in-stock-customer arrives; normalize_tags runs until its first
\* await: all tasks are created and, the event loop's queue being first in
\* first out, each task posts its lookup before anything completes.  With no
\* variant reference nothing suspends before the customer lookup is posted.
Start(r) ==
  /\ pc[r] = "idle"
  /\ \E email \in Emails, raw \in RawInputs, note \in Notes :
       LET segs == Segments(raw)
           lits == SelectSeq(segs, LAMBDA t : Classify(t) = "tag")
           refs == SelectSeq(segs, LAMBDA t : Classify(t) # "tag")
       IN  /\ p' = [p EXCEPT ![r] = [email |-> email, tags |-> raw, note |-> note]]
           /\ IF ~TagsMustNotBeEmpty(raw)
              THEN /\ Finish(r, HTTPException(422, <<"tags far inte vara tomt">>))
                   /\ UNCHANGED <<result, tasks, ti, tags, calls>>
              ELSE /\ result' = [result EXCEPT ![r] = lits]
                   /\ tasks' = [tasks EXCEPT ![r] =
                                  [i \in 1..Len(refs) |-> Task(GidOf(refs[i]))]]
                   /\ UNCHANGED out
                   /\ IF refs = <<>>
                      THEN /\ tags' = [tags EXCEPT ![r] = DictFromKeys(lits)]
                           /\ calls' = [calls EXCEPT ![r] = <<LookupCall(email)>>]
                           /\ pc' = [pc EXCEPT ![r] = "lookup"]
                           /\ UNCHANGED ti
                      ELSE /\ calls' = [calls EXCEPT ![r] =
                                  [i \in 1..Len(refs) |->
                                     Call("node", [id |-> GidOf(refs[i])])]]
                           /\ ti' = [ti EXCEPT ![r] = 1]
                           /\ pc' = [pc EXCEPT ![r] = "await_task"]
                           /\ UNCHANGED tags
  /\ UNCHANGED <<cid, dir>>

\* build_backin_tag: the lookup of task i is answered and the task finishes,
\* with the tag or with an exception; nothing cancels a task, so this runs
\* whether or not the request is still waiting
TaskDone(r, i) ==
  /\ i \in 1..Len(tasks[r])
  /\ tasks[r][i].st = "inflight"
  /\ \E k \in {"ok"} \cup Failures :
       LET n == Cardinality({j \in 1..Len(tasks[r]) : tasks[r][j].st # "inflight"})
           t == [tasks[r][i] EXCEPT !.at = n + 1]
       IN  IF k # "ok"
           THEN /\ tasks' = [tasks EXCEPT ![r][i] =
                               [t EXCEPT !.st = "err", !.exc = GqlError(k)]]
                /\ calls' = [calls EXCEPT ![r][i].res = Resp(k, <<>>, "", 0)]
           ELSE LET handle == RemoteNode(calls[r][i].vars.id)
                IN  /\ calls' = [calls EXCEPT ![r][i].res =
                                   Resp("ok", <<>>, handle, 0)]
                    /\ tasks' = [tasks EXCEPT ![r][i] = NodeOutcome(t, handle)]
  /\ UNCHANGED <<pc, p, result, ti, tags, cid, out, dir>>

\* mutant: the k-th iteration takes the task that finished k-th
Awaited_AsCompleted(ts, k) ==
  IF \E i \in 1..Len(ts) : ts[i].at = k
  THEN ts[CHOOSE i \in 1..Len(ts) : ts[i].at = k]
  ELSE Task(<<>>)

\* the task the k-th iteration of "for task in tasks" awaits
Awaited(ts, k) == ts[k]

\* for task in tasks: result.append(await task); then the deduplication and
\* the customer lookup
AwaitTask(r) ==
  /\ pc[r] = "await_task"
  /\ Awaited(tasks[r], ti[r]).st # "inflight"
  /\ IF Awaited(tasks[r], ti[r]).st = "err"
     THEN /\ Finish(r, Awaited(tasks[r], ti[r]).exc)
          /\ UNCHANGED <<result, ti, tags, calls>>
     ELSE LET res == Append(result[r], Awaited(tasks[r], ti[r]).val)
          IN  /\ result' = [result EXCEPT ![r] = res]
              /\ UNCHANGED out
              /\ IF ti[r] < Len(tasks[r])
                 THEN /\ ti' = [ti EXCEPT ![r] = @ + 1]
                      /\ UNCHANGED <<pc, tags, calls>>
                 ELSE /\ tags' = [tags EXCEPT ![r] = DictFromKeys(res)]
                      /\ calls' = [calls EXCEPT ![r] =
                                     Append(@, LookupCall(p[r].email))]
                      /\ pc' = [pc EXCEPT ![r] = "lookup"]
                      /\ UNCHANGED ti
  /\ UNCHANGED <<p, tasks, cid, dir>>

\* the customer lookup is answered: edges decides the branch, and the first
\* mutation of the branch is posted
LookupResp(r) ==
  /\ pc[r] = "lookup"
  /\ \/ \E k \in Failures : GqlFailed(r, k) /\ UNCHANGED cid
     \/ LET edges == Edges(dir, p[r].email)
            id == IF edges = <<>> THEN 0 ELSE edges[1]
            seen == Answered(r, Resp("ok", <<>>, "", id))
            next == IF edges # <<>> THEN FirstFoundCall(id, tags[r])
                                    ELSE CreateCall(p[r], tags[r])
        IN  /\ cid' = [cid EXCEPT ![r] = id]
            /\ calls' = [calls EXCEPT ![r] = Append(seen, next)]
            /\ pc' = [pc EXCEPT ![r] =
                        CASE next.op = "tagsAdd" -> "tagsAdd"
                          [] next.op = "customerCreate" -> "create"
                          [] OTHER -> "consent"]
            /\ UNCHANGED out
  /\ UNCHANGED <<p, result, tasks, ti, tags, dir>>

\* the directory after a mutation whose call failed with f
AfterFailure(f, applied) == IF MayHaveApplied(f) THEN {dir, applied} ELSE {dir}

\* tagsAdd is answered; its userErrors are not read; the consent mutation
\* is posted
TagsAddResp(r) ==
  /\ pc[r] = "tagsAdd"
  /\ LET sent == calls[r][Len(calls[r])].vars
         applied == TagsAdd(dir, sent.id, sent.tags)
     IN  \/ \E k \in Failures :
              /\ dir' \in AfterFailure(k, applied)
              /\ GqlFailed(r, k)
         \/ \E ue \in {<<>>} \cup UserErrorLists :
              /\ dir' = IF ue = <<>> THEN applied ELSE dir
              /\ calls' = [calls EXCEPT ![r] =
                             Append(Answered(r, Resp("ok", ue, "", 0)),
                                    ConsentCall(cid[r]))]
              /\ pc' = [pc EXCEPT ![r] = "consent"]
              /\ UNCHANGED out
  /\ UNCHANGED <<p, result, tasks, ti, tags, cid>>

\* customerEmailMarketingConsentUpdate is answered
ConsentResp(r) ==
  /\ pc[r] = "consent"
  /\ LET sent == calls[r][Len(calls[r])].vars
         applied == ConsentUpdate(dir, sent.input)
     IN  \/ \E k \in Failures :
              /\ dir' \in AfterFailure(k, applied)
              /\ GqlFailed(r, k)
         \/ \E ue \in {<<>>} \cup UserErrorLists :
              /\ calls' = [calls EXCEPT ![r] = Answered(r, Resp("ok", ue, "", 0))]
              /\ dir' = IF ue = <<>> THEN applied ELSE dir
              /\ Finish(r, ConsentOutcome(ue, cid[r]))
  /\ UNCHANGED <<p, result, tasks, ti, tags, cid>>

\* the userErrors customerCreate answers with: the remote service keeps
\* emails unique and may reject the input for reasons of its own
CreateUserErrors(d, input) ==
  IF Edges(d, input.email) # <<>>
  THEN {<<"Email has already been taken">>}
  ELSE {<<>>} \cup UserErrorLists

\* customerCreate is answered
CreateResp(r) ==
  /\ pc[r] = "create"
  /\ LET sent == calls[r][Len(calls[r])].vars
         applied == IF <<>> \in CreateUserErrors(dir, sent.input)
                    THEN CustomerCreate(dir, sent.input) ELSE dir
     IN  \/ \E k \in Failures :
              /\ dir' \in AfterFailure(k, applied)
              /\ GqlFailed(r, k)
              /\ UNCHANGED cid
         \/ \E ue \in CreateUserErrors(dir, sent.input) :
              LET id == IF ue = <<>> THEN Len(applied) ELSE 0
              IN  /\ calls' = [calls EXCEPT ![r] = Answered(r, Resp("ok", ue, "", id))]
                  /\ dir' = IF ue = <<>> THEN applied ELSE dir
                  /\ cid' = [cid EXCEPT ![r] = id]
                  /\ Finish(r, CreateOutcome(ue, id))
  /\ UNCHANGED <<p, result, tasks, ti, tags>>

Next ==
  \E r \in Requests :
    \/ Start(r)
    \/ \E i \in 1..Len(tasks[r]) : TaskDone(r, i)
    \/ AwaitTask(r)
    \/ LookupResp(r)
    \/ TagsAddResp(r)
    \/ ConsentResp(r)
    \/ CreateResp(r)

Spec == Init /\ [][Next]_vars

\* the same requests made one after the other: a request arrives only when
\* no other is being served
StartSeq(r) ==
  /\ \A q \in Requests : pc[q] \in {"idle", "done"}
  /\ Start(r)

NextSeq ==
  \E r \in Requests :
    \/ StartSeq(r)
    \/ \E i \in 1..Len(tasks[r]) : TaskDone(r, i)
    \/ AwaitTask(r)
    \/ LookupResp(r)
    \/ TagsAddResp(r)
    \/ ConsentResp(r)
    \/ CreateResp(r)

SpecSeq == Init /\ [][NextSeq]_vars

\* ========================================================================
\* Properties
\* ========================================================================
Idx(r, op) == {i \in 1..Len(calls[r]) : calls[r][i].op = op}

Mutations == {"tagsAdd", "customerEmailMarketingConsentUpdate", "customerCreate"}

\* the call was answered, with no userErrors and, for a variant lookup, a node
Succeeded(c) ==
  /\ c.res.k = "ok"
  /\ c.res.ue = <<>>
  /\ c.op = "node" => c.res.h # ""

\* the call failed in gql
Failed(c) == c.res.k \in Failures

\* the call was answered with userErrors
Refused(c) == c.res.k = "ok" /\ c.res.ue # <<>>

AllSucceeded(r) == \A i \in 1..Len(calls[r]) : Succeeded(calls[r][i])

\* the lookup of request r found a customer / found none
Found(r) == \E i \in Idx(r, "customers") : Succeeded(calls[r][i]) /\ calls[r][i].res.id # 0
Missed(r) == \E i \in Idx(r, "customers") : Succeeded(calls[r][i]) /\ calls[r][i].res.id = 0

IsError(o) == o.status >= 400 /\ ~o.created /\ ~o.updated

\* ---- C1 ----------------------------------------------------------------
\* C1: tag union, not replacement.  From the moment the lookup of a request
\* has found a customer, no step removes a tag from that customer, and when
\* the request has ended with all its calls succeeded and a non-empty
\* normalized tag list, every tag of the list is on the customer.
C1_Step ==
  \A r \in Requests :
    /\ pc[r] \in {"tagsAdd", "consent"} => dir[cid[r]].tags \subseteq dir'[cid[r]].tags
    /\ (pc'[r] = "done" /\ Found(r)' /\ tags'[r] # <<>> /\ AllSucceeded(r)')
          => Range(tags'[r]) \subseteq dir'[cid'[r]].tags

C1_TagUnion == [][C1_Step]_vars

C1_Witness ==
  \E r \in Requests :
    /\ pc[r] = "done" /\ Found(r) /\ AllSucceeded(r)
    /\ tags[r] = << <<"b">>, <<"c">> >>
    /\ dir[cid[r]].tags = {<<"a">>, <<"b">>, <<"c">>}

\* ---- C2 ----------------------------------------------------------------
\* C2: idempotent consent (requests made one after the other).  When a
\* request for an email starts after another for the same email has ended
\* with success, and the remote service answers both without failures and
\* userErrors: each leaves its customer SUBSCRIBED / SINGLE_OPT_IN, the
\* later one returns updated with the same customer_id, one customer holds
\* the email, and with the same tags no step of the later request changes
\* the directory.
C2_Step ==
  \A r1, r2 \in Requests :
    ( /\ r1 # r2
      /\ pc[r1] = "done" /\ out[r1].status = 200 /\ AllSucceeded(r1)
      /\ pc[r2] \notin {"idle", "done"}
      /\ p[r2].email = p[r1].email )
    =>
      /\ dir[out[r1].customer_id].consent = EMAIL_CONSENT_SUBSCRIBED
      /\ (tags[r2] = tags[r1] /\ pc[r2] \in {"tagsAdd", "consent", "create"}
            /\ \A i \in 1..Len(calls'[r2]) :
                 calls'[r2][i].res.k = "pending" \/ Succeeded(calls'[r2][i]))
           => dir' = dir
      /\ (pc'[r2] = "done" /\ AllSucceeded(r2)')
           => /\ out'[r2].updated /\ ~out'[r2].created
              /\ out'[r2].customer_id = out[r1].customer_id
              /\ dir'[out'[r2].customer_id].consent = EMAIL_CONSENT_SUBSCRIBED
              /\ Cardinality({c \in 1..Len(dir') : dir'[c].email = p[r2].email}) = 1

C2_IdempotentConsent == [][C2_Step]_vars

C2_Witness ==
  \E r1, r2 \in Requests :
    /\ r1 # r2
    /\ pc[r1] = "done" /\ pc[r2] = "done"
    /\ AllSucceeded(r1) /\ AllSucceeded(r2)
    /\ out[r1].created /\ out[r2].updated
    /\ out[r1].customer_id = out[r2].customer_id
    /\ tags[r1] = tags[r2] /\ tags[r1] # <<>>
    /\ p[r1].email = "new@x.se" /\ p[r2].email = "new@x.se"

\* ---- C3 ----------------------------------------------------------------
\* C3: lookup-miss path.  A finished request whose lookup found no customer
\* and whose calls all succeeded has issued exactly one customerCreate, with
\* the email, the normalized tags, the consent block and the note only when
\* one is given, has issued no tagsAdd and no consent update, and has
\* returned created with the id of the create response.
C3_LookupMiss ==
  \A r \in Requests :
    (pc[r] = "done" /\ Missed(r) /\ AllSucceeded(r)) =>
      /\ Cardinality(Idx(r, "customerCreate")) = 1
      /\ Idx(r, "tagsAdd") = {}
      /\ Idx(r, "customerEmailMarketingConsentUpdate") = {}
      /\ \A i \in Idx(r, "customerCreate") :
           LET input == calls[r][i].vars.input
           IN  /\ input.email = p[r].email
               /\ input.tags = tags[r]
               /\ input.emailMarketingConsent = EMAIL_CONSENT_SUBSCRIBED
               /\ DOMAIN input \subseteq {"email", "tags", "emailMarketingConsent", "note"}
               /\ "note" \in DOMAIN input =>
                     (p[r].note # NoNote /\ input.note = p[r].note)
               /\ out[r].customer_id = calls[r][i].res.id
      /\ out[r].status = 200 /\ out[r].created /\ ~out[r].updated

C3_Witness ==
  \E r \in Requests :
    /\ pc[r] = "done" /\ Missed(r) /\ AllSucceeded(r)
    /\ out[r].created /\ out[r].customer_id = 2
    /\ p[r].note = "restock" /\ tags[r] # <<>>
    /\ \E i \in Idx(r, "customerCreate") : "note" \in DOMAIN calls[r][i].vars.input

\* ---- C4 ----------------------------------------------------------------
\* C4: on the found branch, a tagsAdd or consent response with userErrors
\* makes the request fail with the first error's message, and no updated
\* result is returned (stated for requests none of whose calls fails in gql).
C4_UserErrorsFail ==
  \A r \in Requests :
    \A i \in Idx(r, "tagsAdd") \cup Idx(r, "customerEmailMarketingConsentUpdate") :
      ( /\ pc[r] = "done"
        /\ Refused(calls[r][i])
        /\ \A j \in 1..Len(calls[r]) : ~Failed(calls[r][j]) )
      =>
        /\ IsError(out[r])
        /\ calls[r][i].res.ue[1] \in Range(out[r].detail)

\* ---- C5 ----------------------------------------------------------------
\* C5: a customerCreate response with userErrors ends the request with an
\* error that carries the first message; neither created nor updated.
C5_CreateUserErrors ==
  \A r \in Requests :
    \A i \in Idx(r, "customerCreate") :
      Refused(calls[r][i]) =>
        /\ pc[r] = "done"
        /\ IsError(out[r])
        /\ out[r].detail = <<"Customer create failed: ", calls[r][i].res.ue[1]>>

C5_Witness ==
  \E r \in Requests :
    \E i \in Idx(r, "customerCreate") :
      /\ calls[r][i].res.ue = <<"Tags is invalid", "Customer is invalid">>
      /\ out[r].detail = <<"Customer create failed: ", "Tags is invalid">>

\* ---- C6 ----------------------------------------------------------------
\* C6: no partial success is swallowed, no rollback.  When tagsAdd has
\* succeeded and the consent update then failed (in gql or with userErrors),
\* the request has ended with an error, the tags are on the customer, and
\* the consent update is the last call of the request.
C6_NoRollback ==
  \A r \in Requests :
    \A i \in Idx(r, "tagsAdd"), j \in Idx(r, "customerEmailMarketingConsentUpdate") :
      (Succeeded(calls[r][i]) /\ (Failed(calls[r][j]) \/ Refused(calls[r][j]))) =>
        /\ pc[r] = "done"
        /\ IsError(out[r])
        /\ Range(calls[r][i].vars.tags) \subseteq dir[calls[r][i].vars.id].tags
        /\ j = Len(calls[r])

C6_Witness ==
  \E r \in Requests :
    \E i \in Idx(r, "tagsAdd"), j \in Idx(r, "customerEmailMarketingConsentUpdate") :
      /\ Succeeded(calls[r][i]) /\ Refused(calls[r][j])
      /\ pc[r] = "done" /\ out[r].status = 500
      /\ <<"c">> \in dir[cid[r]].tags
      /\ dir[cid[r]].consent = NOT_SUBSCRIBED

\* ---- C7 ----------------------------------------------------------------
NoNode(c) == c.op = "node" /\ c.res.k = "ok" /\ c.res.h = ""

NoCustomerCall(r) ==
  /\ Idx(r, "customers") = {}
  /\ \A op \in Mutations : Idx(r, op) = {}

RefSegments(raw) == SelectSeq(Segments(raw), LAMBDA t : NUM_RX(t) \/ GID_RX(t))

\* C8: no retry, abort on failure.  Once a call of a request has failed in
\* gql the request issues no further call; a call is issued once (one lookup
\* per variant reference, at most one of each other call); a request that
\* awaited a failed call has ended, and a request that has ended after a
\* failed call has ended with an error.
C8_Step ==
  \A r \in Requests :
    /\ (\E i \in 1..Len(calls[r]) : Failed(calls[r][i]))
          => [i \in 1..Len(calls'[r]) |-> <<calls'[r][i].op, calls'[r][i].vars>>]
             = [i \in 1..Len(calls[r]) |-> <<calls[r][i].op, calls[r][i].vars>>]
    /\ Cardinality(Idx(r, "node")') <= Len(RefSegments(p'[r].tags))
    /\ \A op \in Mutations \cup {"customers"} : Cardinality(Idx(r, op)') <= 1
    /\ \A i \in 1..Len(calls'[r]) :
         Failed(calls'[r][i]) =>
           /\ calls'[r][i].op # "node" => pc'[r] = "done"
           /\ pc'[r] = "done" => IsError(out'[r])

C8_NoRetry == [][C8_Step]_vars

C8_Witness ==
  \E r \in Requests :
    /\ pc[r] = "done" /\ out[r].status = 500
    /\ Len(calls[r]) = 2
    /\ calls[r][1].op = "node" /\ Succeeded(calls[r][1])
    /\ calls[r][2].op = "node" /\ Failed(calls[r][2])

\* ---- C9 ----------------------------------------------------------------
RefDigits(t) == IF t[1] = GidPrefix THEN Tail(t) ELSE t

FirstIdx(x, s) == CHOOSE i \in 1..Len(s) : s[i] = x /\ \A j \in 1..(i-1) : s[j] # x

\* the request has its normalized tags
Normalized(r) ==
  \/ pc[r] \in {"lookup", "tagsAdd", "consent", "create"}
  \/ pc[r] = "done" /\ Idx(r, "customers") # {}

\* C9: normalization result.  The normalized tags are the literal segments
\* in their order followed by the tags backin|<handle>|<variant id> of the
\* variant references in their order, each kept at its first occurrence only;
\* a variant named by a number and by a gid has one tag.
C9_Normalization ==
  \A r \in Requests :
    Normalized(r) =>
      LET segs == Segments(p[r].tags)
          refs == RefSegments(p[r].tags)
          lits == SelectSeq(segs, LAMBDA t : ~(NUM_RX(t) \/ GID_RX(t)))
          derived == [i \in 1..Len(refs) |->
                        <<"backin|", Catalogue[RefDigits(refs[i])], "|">>
                          \o RefDigits(refs[i])]
          full == lits \o derived
      IN  /\ Range(tags[r]) = Range(full)
          /\ \A i, j \in 1..Len(tags[r]) :
               i < j => /\ tags[r][i] # tags[r][j]
                        /\ FirstIdx(tags[r][i], full) < FirstIdx(tags[r][j], full)
          /\ \A a \in 1..Len(refs) :
               Cardinality({k \in 1..Len(tags[r]) : tags[r][k] = derived[a]}) = 1

C9_Witness ==
  \E r \in Requests :
    /\ pc[r] = "lookup"
    /\ p[r].tags = <<GidPrefix, "1", "0", ",", " ", "a", ",", "1", "0">>
    /\ tags[r] = << <<"a">>, <<"backin|", "widget", "|", "1", "0">> >>

\* ---- C10 ---------------------------------------------------------------
\* C10: empty tags.  A raw tag string with no non-blank segment gives the
\* empty tag list and no variant lookup; a request with the empty tag list
\* whose lookup found a customer has issued no tagsAdd, and the consent
\* update is the call it issued on the lookup's answer.
C10_EmptyTags ==
  \A r \in Requests :
    /\ (Normalized(r) /\ Segments(p[r].tags) = <<>>)
          => tags[r] = <<>> /\ Idx(r, "node") = {}
    /\ (Found(r) /\ tags[r] = <<>>) =>
          /\ Idx(r, "tagsAdd") = {}
          /\ \A i \in Idx(r, "customers") :
               /\ i < Len(calls[r])
               /\ calls[r][i+1].op = "customerEmailMarketingConsentUpdate"

C10_Witness ==
  \E r \in Requests :
    /\ pc[r] = "done" /\ out[r].updated
    /\ p[r].tags = <<" ", ",", " ">>
    /\ tags[r] = <<>>
    /\ [i \in 1..Len(calls[r]) |-> calls[r][i].op]
         = <<"customers", "customerEmailMarketingConsentUpdate">>

\* ---- C11 ---------------------------------------------------------------
\* two different requests for the same email whose lookups both found no
\* customer and that both issued customerCreate
Raced(r1, r2) ==
  /\ r1 # r2
  /\ p[r1].email = p[r2].email
  /\ Missed(r1) /\ Missed(r2)
  /\ Idx(r1, "customerCreate") # {} /\ Idx(r2, "customerCreate") # {}

\* the error a customerCreate answer with userErrors ends the request with
CreateRefusedError(o) ==
  IsError(o) /\ o.status = 500 /\ o.detail[1] = "Customer create failed: "

\* C11 (as claimed): of two requests that raced to create the same email, at
\* most one has returned created, neither has returned updated, and once one
\* has returned created the other, when it has ended, has ended with the
\* create-userErrors error.
C11_CreationRace ==
  \A r1, r2 \in Requests :
    Raced(r1, r2) =>
      /\ ~(out[r1].created /\ out[r2].created)
      /\ ~out[r1].updated /\ ~out[r2].updated
      /\ (out[r1].created /\ pc[r2] = "done") => CreateRefusedError(out[r2])

\* C11 (amended): of two requests that raced to create the same email, at
\* most one has returned created, neither has returned updated, and once one
\* has returned created the other, when it has ended, has ended with an
\* error: the create-userErrors error when its customerCreate was answered,
\* the error of gql when that call failed.
C11_CreationRaceAmended ==
  \A r1, r2 \in Requests :
    Raced(r1, r2) =>
      /\ ~(out[r1].created /\ out[r2].created)
      /\ ~out[r1].updated /\ ~out[r2].updated
      /\ (out[r1].created /\ pc[r2] = "done") =>
           \A i \in Idx(r2, "customerCreate") :
             /\ IsError(out[r2])
             /\ Failed(calls[r2][i]) => out[r2] = GqlError(calls[r2][i].res.k)
             /\ ~Failed(calls[r2][i]) => CreateRefusedError(out[r2])

C11_Witness ==
  \E r1, r2 \in Requests :
    /\ Raced(r1, r2)
    /\ pc[r1] = "done" /\ pc[r2] = "done"
    /\ out[r1].created
    /\ out[r2].detail = <<"Customer create failed: ", "Email has already been taken">>
    /\ Cardinality({c \in 1..Len(dir) : dir[c].email = p[r1].email}) = 1

\* ---- C12 ---------------------------------------------------------------
\* C12: shape of the found branch.  A request that has ended, whose lookup
\* found a customer and whose calls all succeeded without userErrors, has
\* issued exactly one consent mutation, for the customer of the lookup and
\* with SUBSCRIBED / SINGLE_OPT_IN, has issued no customerCreate, and has
\* returned updated (not created) with the customer id of the lookup; no
\* request returns both created and updated.
C12_FoundBranch ==
  \A r \in Requests :
    /\ ~(out[r].created /\ out[r].updated)
    /\ (pc[r] = "done" /\ Found(r) /\ AllSucceeded(r)) =>
         \A l \in Idx(r, "customers") :
           /\ Cardinality(Idx(r, "customerEmailMarketingConsentUpdate")) = 1
           /\ \A i \in Idx(r, "customerEmailMarketingConsentUpdate") :
                calls[r][i].vars.input =
                  [customerId |-> calls[r][l].res.id,
                   emailMarketingConsent |-> EMAIL_CONSENT_SUBSCRIBED]
           /\ Idx(r, "customerCreate") = {}
           /\ out[r].status = 200
           /\ out[r].updated /\ ~out[r].created
           /\ out[r].customer_id = calls[r][l].res.id

\* two requests found the same customer and both returned updated, so the
\* consent update answered second met a customer SUBSCRIBED already; one of
\* the requests has the empty tag list
C12_Witness ==
  \E r1, r2 \in Requests :
    /\ r1 # r2
    /\ pc[r1] = "done" /\ Found(r1) /\ AllSucceeded(r1) /\ out[r1].updated
    /\ pc[r2] = "done" /\ Found(r2) /\ AllSucceeded(r2) /\ out[r2].updated
    /\ out[r1].customer_id = out[r2].customer_id
    /\ tags[r1] = <<>> /\ tags[r2] # <<>>

\* ---- C13 ---------------------------------------------------------------
\* C13: order of the calls of one request.  A customer lookup is in the log
\* only with every variant reference of the request looked up before it and
\* each of these lookups succeeded; a mutation is in the log only after a
\* customer lookup that has been answered; a consent update that follows a
\* tagsAdd is in the log only with the tagsAdd answered.
C13_CallOrdering ==
  \A r \in Requests :
    /\ \A l \in Idx(r, "customers") :
         /\ Cardinality(Idx(r, "node")) = Len(RefSegments(p[r].tags))
         /\ \A n \in Idx(r, "node") : n < l /\ Succeeded(calls[r][n])
    /\ \A m \in 1..Len(calls[r]) :
         calls[r][m].op \in Mutations =>
           \E l \in Idx(r, "customers") : l < m /\ calls[r][l].res.k = "ok"
    /\ \A c \in Idx(r, "customerEmailMarketingConsentUpdate") :
         \A t \in Idx(r, "tagsAdd") : t < c /\ calls[r][t].res.k = "ok"

C13_Witness ==
  \E r \in Requests :
    /\ [i \in 1..Len(calls[r]) |-> calls[r][i].op]
         = <<"node", "node", "customers", "tagsAdd",
             "customerEmailMarketingConsentUpdate">>
    /\ calls[r][5].res = Pending

\* ---- C14 ---------------------------------------------------------------
\* the lookups of request r all succeeded, task i having finished before
\* task j
FinishedBefore(r, i, j) ==
  /\ {i, j} \subseteq 1..Len(tasks[r])
  /\ \A k \in 1..Len(tasks[r]) : tasks[r][k].st = "ok"
  /\ tasks[r][i].at < tasks[r][j].at

\* C14: the order in which the concurrent lookups finish does not matter.
\* Two requests with the same raw tag string whose variant lookups all
\* succeeded have the same normalized tag list, in whatever order the lookups
\* of each finished: the list holds the tags of the tasks in list order.
C14_CompletionOrder ==
  \A r1, r2 \in Requests :
    ( /\ Normalized(r1) /\ Normalized(r2)
      /\ p[r1].tags = p[r2].tags )
    =>
      /\ tags[r1] = tags[r2]
      /\ result[r1] = result[r2]
      /\ \A i \in 1..Len(tasks[r1]) :
           result[r1][Len(result[r1]) - Len(tasks[r1]) + i] = tasks[r1][i].val

\* the same two lookups finished in opposite orders in the two requests
C14_Witness ==
  \E r1, r2 \in Requests :
    /\ Normalized(r1) /\ Normalized(r2)
    /\ p[r1].tags = p[r2].tags
    /\ FinishedBefore(r1, 1, 2) /\ FinishedBefore(r2, 2, 1)
    /\ tasks[r1][1].val # tasks[r1][2].val
    /\ tags[r1] = tags[r2] /\ Len(tags[r1]) = 3

\* ---- C15 ---------------------------------------------------------------
\* C15: the variant lookups are joined.  When a request has ended, with a
\* result or with an error, none of the lookups of its variant references is
\* in flight.
C15_Joined ==
  \A r \in Requests :
    pc[r] = "done" =>
      \A i \in 1..Len(tasks[r]) :
        tasks[r][i].st # "inflight" /\ calls[r][i].res # Pending

\* ---- C16 ---------------------------------------------------------------
\* C16: a request may carry no tags.  A request whose raw tag string is empty
\* or blank is not refused by validation: it has the empty tag list, issues
\* the customer lookup, and when the lookup is answered, the consent update
\* or the customerCreate.
C16_NoTagsValid ==
  \A r \in Requests :
    (pc[r] # "idle" /\ Strip(p[r].tags) = <<>>) =>
      /\ out[r].status # 422
      /\ tags[r] = <<>>
      /\ Idx(r, "customers") # {}
      /\ (Found(r) \/ Missed(r)) =>
           \/ Idx(r, "customerEmailMarketingConsentUpdate") # {}
           \/ Idx(r, "customerCreate") # {}

\* ---- C17 ---------------------------------------------------------------
\* C17: the remote state only grows.  No step removes a customer or changes
\* a customer's email, no step removes a tag from a customer, no step takes
\* a customer out of SUBSCRIBED, a customer that a step adds is SUBSCRIBED /
\* SINGLE_OPT_IN, and every mutation in the logs is a tagsAdd, a consent
\* update to SUBSCRIBED / SINGLE_OPT_IN or a customerCreate with that
\* consent.
C17_Step ==
  /\ Len(dir') >= Len(dir)
  /\ \A c \in 1..Len(dir) :
       /\ dir'[c].email = dir[c].email
       /\ dir[c].tags \subseteq dir'[c].tags
       /\ dir[c].consent = EMAIL_CONSENT_SUBSCRIBED
            => dir'[c].consent = EMAIL_CONSENT_SUBSCRIBED
  /\ \A c \in (Len(dir) + 1)..Len(dir') :
       dir'[c].consent = EMAIL_CONSENT_SUBSCRIBED
  /\ \A r \in Requests :
       \A i \in 1..Len(calls'[r]) :
         LET c == calls'[r][i]
         IN  /\ c.op \in {"node", "customers"} \cup Mutations
             /\ c.op \in {"customerEmailMarketingConsentUpdate", "customerCreate"}
                  => c.vars.input.emailMarketingConsent = EMAIL_CONSENT_SUBSCRIBED

C17_MonotoneRemote == [][C17_Step]_vars

C17_Witness ==
  /\ Len(dir) = 2
  /\ dir[1].tags = {<<"a">>, <<"b">>, <<"c">>}
  /\ dir[1].consent = EMAIL_CONSENT_SUBSCRIBED
  /\ dir[2].consent = EMAIL_CONSENT_SUBSCRIBED
  /\ \A r \in Requests : pc[r] = "done" /\ out[r].status = 200

\* ---- C18 ---------------------------------------------------------------
\* the requests of the termination check carry no note (the note decides
\* nothing but the input of customerCreate)
StartFair(r) ==
  /\ Start(r)
  /\ p'[r].note = NoNote

NextFair ==
  \E r \in Requests :
    \/ StartFair(r)
    \/ \E i \in 1..Len(tasks[r]) : TaskDone(r, i)
    \/ AwaitTask(r)
    \/ LookupResp(r)
    \/ TagsAddResp(r)
    \/ ConsentResp(r)
    \/ CreateResp(r)

\* every call posted is answered or times out (gql's timeout=30.0), and the
\* event loop resumes a coroutine whose awaited call or task has finished;
\* nothing obliges a request to arrive
SpecFair ==
  /\ Init
  /\ [][NextFair]_vars
  /\ \A r \in Requests :
       /\ WF_vars(\E i \in 1..Len(tasks[r]) : TaskDone(r, i))
       /\ WF_vars(AwaitTask(r))
       /\ WF_vars(LookupResp(r))
       /\ WF_vars(TagsAddResp(r))
       /\ WF_vars(ConsentResp(r))
       /\ WF_vars(CreateResp(r))

\* the calls of request r so far: one per variant reference segment, one
\* customer lookup at most, two mutations at most
CallBound(r) ==
  /\ Len(calls[r]) <= Len(RefSegments(p[r].tags)) + 3
  /\ Cardinality(Idx(r, "node")) <= Len(RefSegments(p[r].tags))
  /\ Cardinality(Idx(r, "customers")) <= 1
  /\ Cardinality({i \in 1..Len(calls[r]) : calls[r][i].op \in Mutations}) <= 2

\* C18: every request terminates.  Every call being answered in the end, a
\* request that has arrived ends with a result or an error, and at no time
\* has it posted more than k + 3 calls, k being the number of variant
\* reference segments of its raw tag string (duplicates counted).
C18_Terminates ==
  /\ [](\A r \in Requests : CallBound(r))
  /\ \A r \in Requests : (pc[r] # "idle") ~> (pc[r] = "done")

\* a request has ended after k + 3 calls with k = 2
C18_Witness ==
  \E r \in Requests :
    /\ pc[r] = "done"
    /\ Len(RefSegments(p[r].tags)) = 2
    /\ Len(calls[r]) = 5

\* ---- C19 ---------------------------------------------------------------
\* the note travels in call c
CarriesNote(c) ==
  \/ "note" \in DOMAIN c.vars
  \/ "input" \in DOMAIN c.vars /\ "note" \in DOMAIN c.vars.input

\* C19: the note is written on creation only.  No step changes the note of a
\* customer of the directory; a request whose lookup found a customer has
\* posted no call that carries the note; a customerCreate carries the note,
\* the request's, exactly when the request's note is non-empty.
C19_Step ==
  /\ \A c \in 1..Len(dir) : dir'[c].note = dir[c].note
  /\ \A r \in Requests :
       /\ Found(r)' => \A i \in 1..Len(calls'[r]) : ~CarriesNote(calls'[r][i])
       /\ \A i \in 1..Len(calls'[r]) :
            calls'[r][i].op = "customerCreate" =>
              /\ CarriesNote(calls'[r][i]) <=> p'[r].note \notin {NoNote, ""}
              /\ CarriesNote(calls'[r][i])
                   => calls'[r][i].vars.input.note = p'[r].note

C19_NoteOnCreateOnly == [][C19_Step]_vars

\* a request with a note has updated the customer whose note is "vip", and
\* a request with a note has created a customer with that note
C19_Witness ==
  \E r1, r2 \in Requests :
    /\ pc[r1] = "done" /\ Found(r1) /\ out[r1].updated
    /\ p[r1].note = "restock"
    /\ dir[out[r1].customer_id].note = "vip"
    /\ pc[r2] = "done" /\ out[r2].created
    /\ p[r2].note = "restock"
    /\ dir[out[r2].customer_id].note = "restock"

====
